---- MODULE Spec2Model ----
(***************************************************************************)
(* piston_mini_client.failhandlers: the fail handlers that are passed the  *)
(* raw httplib2 response and body and raise, replace or return the body.   *)
(*                                                                         *)
(* Python values are records tagged with their type, so that '200' and 200 *)
(* are different values, as they are for Python's == and "in".             *)
(***************************************************************************)
EXTENDS Integers, Sequences, FiniteSets, TLC

VARIABLES os_environ, handler, last, first, rendered

vars == <<os_environ, handler, last, first, rendered>>

-----------------------------------------------------------------------------
(* Python values.                                                          *)

None == [t |-> "NoneType"]

PyStr(s) == [t |-> "str", s |-> s]

PyInt(n) == [t |-> "int", n |-> n]

PyBool(b) == [t |-> "bool", b |-> b]

\* a class object
PyClass(name) == [t |-> "type", name |-> name]

\* a dict is its items in insertion order; keys are distinct Python values
PyDict(items) == [t |-> "dict", items |-> items]

Item(k, v) == [k |-> k, v |-> v]

\* truth value of a Python object, as "if self.debug:" takes it
Truthy(v) ==
    CASE v.t = "NoneType" -> FALSE
      [] v.t = "bool" -> v.b
      [] v.t = "str" -> v.s # ""
      [] v.t = "int" -> v.n # 0
      [] v.t = "dict" -> v.items # <<>>
      [] v.t = "type" -> TRUE

Digit(d) ==
    CASE d = 0 -> "0" [] d = 1 -> "1" [] d = 2 -> "2" [] d = 3 -> "3"
      [] d = 4 -> "4" [] d = 5 -> "5" [] d = 6 -> "6" [] d = 7 -> "7"
      [] d = 8 -> "8" [] d = 9 -> "9"

RECURSIVE IntToStr(_)
IntToStr(n) == IF n < 10 THEN Digit(n) ELSE IntToStr(n \div 10) \o Digit(n % 10)

RECURSIVE repr(_)
RECURSIVE ReprItems(_)
\* "k: v, k: v" of a dict's items
ReprItems(items) ==
    IF items = <<>> THEN ""
    ELSE repr(items[1].k) \o ": " \o repr(items[1].v)
         \o (IF Len(items) > 1 THEN ", " ELSE "") \o ReprItems(Tail(items))

\* repr(v): what %s shows of the elements of a container
repr(v) ==
    CASE v.t = "NoneType" -> "None"
      [] v.t = "bool" -> IF v.b THEN "True" ELSE "False"
      [] v.t = "str" -> "'" \o v.s \o "'"
      [] v.t = "int" -> IntToStr(v.n)
      [] v.t = "dict" -> "{" \o ReprItems(v.items) \o "}"
      [] v.t = "type" -> "<class '" \o v.name \o "'>"

\* str(v): what "%s" % v gives
str(v) == IF v.t = "str" THEN v.s ELSE repr(v)

\* key in d
dict_contains(d, key) == \E i \in 1..Len(d.items) : d.items[i].k = key

\* d.get(key, default)
dict_get(d, key, default) ==
    IF dict_contains(d, key)
    THEN d.items[CHOOSE i \in 1..Len(d.items) : d.items[i].k = key].v
    ELSE default

\* x in lst, by ==
list_contains(lst, x) == \E i \in 1..Len(lst) : lst[i] = x

\* substring test on rendered text
Contains(hay, needle) ==
    \E i \in 1..(Len(hay) - Len(needle) + 1) :
        SubSeq(hay, i, i + Len(needle) - 1) = needle

-----------------------------------------------------------------------------
(* class APIError(Exception) and its four subclasses.                      *)

DEBUG_VAR == PyStr("PISTON_MINI_CLIENT_DEBUG")

\* the base class of each exception class
bases ==
    [APIError |-> "Exception",
     BadRequestError |-> "APIError",
     UnauthorizedError |-> "APIError",
     NotFoundError |-> "APIError",
     InternalServerErrorError |-> "APIError",
     Exception |-> "object"]

RECURSIVE issubclass(_, _)
issubclass(c, d) ==
    IF c = d THEN TRUE
    ELSE IF c = "object" THEN FALSE
    ELSE issubclass(bases[c], d)

isinstance(e, d) == issubclass(e.cls, d)

\* an APIError that sets body only when the debug flag is on
APIError_init_DebugBody(cls, msg, body, environ) ==
    LET debug == dict_get(environ, DEBUG_VAR, PyBool(FALSE))
    IN [cls |-> cls, msg |-> msg,
        body |-> IF Truthy(debug) THEN body ELSE None,
        debug |-> debug]

\* APIError.__init__(self, msg, body=None), of class cls, run under environ
APIError_init(cls, msg, body, environ) ==
    [cls |-> cls, msg |-> msg, body |-> body,
     debug |-> dict_get(environ, DEBUG_VAR, PyBool(FALSE))]

\* a __str__ that tests "self.debug is not None"
APIError_str_IsNotNone(self) ==
    IF self.debug # None
    THEN str(PyStr(self.msg)) \o "\nReceived body:\n" \o str(self.body)
    ELSE self.msg

\* APIError.__str__(self)
APIError_str(self) ==
    IF Truthy(self.debug)
    THEN str(PyStr(self.msg)) \o "\nReceived body:\n" \o str(self.body)
    ELSE self.msg

-----------------------------------------------------------------------------
(* The outcome of a call: a returned value or a raised exception.          *)

Return(v) == [tag |-> "return", value |-> v]

Raise(e) == [tag |-> "raise", exc |-> e]

-----------------------------------------------------------------------------
(* class BaseFailHandler and the four fail handlers.                       *)

STATUS == PyStr("status")

\* a list of success codes that lost its last entry
success_status_codes_No304 == <<PyStr("200"), PyStr("201"), PyStr("204")>>

success_status_codes == <<PyStr("200"), PyStr("201"), PyStr("204"), PyStr("304")>>

\* BaseFailHandler.__init__: nothing of the arguments is stored
BaseFailHandler_init(cls, url, method, body, headers) ==
    [cls |-> cls, attrs |-> <<>>]

\* a was_error that only fails a status that is there
was_error_PresentOnly(self, response) ==
    /\ dict_contains(response, STATUS)
    /\ ~list_contains(success_status_codes, dict_get(response, STATUS, None))

\* a was_error that compares the text of the status
was_error_ByText(self, response) ==
    ~list_contains(success_status_codes, PyStr(str(dict_get(response, STATUS, None))))

\* BaseFailHandler.was_error(self, response)
was_error(self, response) ==
    ~list_contains(success_status_codes, dict_get(response, STATUS, None))

\* '%s: %s' % (status, response)
StatusMessage(status, response) == str(status) \o ": " \o str(response)

\* a handle that attaches the body to every error
ExceptionFailHandler_handle_BodyAlways(self, response, body, environ) ==
    IF ~dict_contains(response, STATUS)
    THEN Raise(APIError_init("APIError", "No status code in response", body, environ))
    ELSE IF was_error(self, response)
    THEN Raise(APIError_init("APIError",
                             StatusMessage(dict_get(response, STATUS, None), response),
                             body, environ))
    ELSE Return(body)

\* ExceptionFailHandler.handle(self, response, body)
ExceptionFailHandler_handle(self, response, body, environ) ==
    IF ~dict_contains(response, STATUS)
    THEN Raise(APIError_init("APIError", "No status code in response", None, environ))
    ELSE IF was_error(self, response)
    THEN Raise(APIError_init("APIError",
                             StatusMessage(dict_get(response, STATUS, None), response),
                             body, environ))
    ELSE Return(body)

\* a handle that returns None for an empty body too
NoneFailHandler_handle_EmptyBody(self, response, body, environ) ==
    IF was_error(self, response) \/ ~Truthy(body) THEN Return(None) ELSE Return(body)

\* NoneFailHandler.handle(self, response, body)
NoneFailHandler_handle(self, response, body, environ) ==
    IF was_error(self, response) THEN Return(None) ELSE Return(body)

\* a handle that wants a status before it reports a failure
DictFailHandler_handle_NeedsStatus(self, response, body, environ) ==
    IF dict_contains(response, STATUS) /\ was_error(self, response)
    THEN Return(PyDict(<<Item(PyStr("response"), response),
                         Item(PyStr("body"), body)>>))
    ELSE Return(body)

\* a handle whose dict holds the text of the response
DictFailHandler_handle_ReprResponse(self, response, body, environ) ==
    IF was_error(self, response)
    THEN Return(PyDict(<<Item(PyStr("response"), PyStr(str(response))),
                         Item(PyStr("body"), body)>>))
    ELSE Return(body)

\* DictFailHandler.handle(self, response, body)
DictFailHandler_handle(self, response, body, environ) ==
    IF was_error(self, response)
    THEN Return(PyDict(<<Item(PyStr("response"), response),
                         Item(PyStr("body"), body)>>))
    ELSE Return(body)

\* a mapping in which 401 got the class of 400
exceptions_401As400 ==
    PyDict(<<Item(PyStr("400"), PyClass("BadRequestError")),
             Item(PyStr("401"), PyClass("BadRequestError")),
             Item(PyStr("404"), PyClass("NotFoundError")),
             Item(PyStr("500"), PyClass("InternalServerErrorError"))>>)

\* MultiExceptionFailHandler.exceptions
exceptions ==
    PyDict(<<Item(PyStr("400"), PyClass("BadRequestError")),
             Item(PyStr("401"), PyClass("UnauthorizedError")),
             Item(PyStr("404"), PyClass("NotFoundError")),
             Item(PyStr("500"), PyClass("InternalServerErrorError"))>>)

\* MultiExceptionFailHandler.handle(self, response, body)
MultiExceptionFailHandler_handle(self, response, body, environ) ==
    IF was_error(self, response)
    THEN LET status == dict_get(response, STATUS, None)
             exception_class == dict_get(exceptions, status, PyClass("APIError"))
         IN Raise(APIError_init(exception_class.name,
                                StatusMessage(status, response), body, environ))
    ELSE Return(body)

\* self.handle(response, body), by the class of self
handle(self, response, body, environ) ==
    CASE self.cls = "ExceptionFailHandler" ->
            ExceptionFailHandler_handle(self, response, body, environ)
      [] self.cls = "NoneFailHandler" ->
            NoneFailHandler_handle(self, response, body, environ)
      [] self.cls = "DictFailHandler" ->
            DictFailHandler_handle(self, response, body, environ)
      [] self.cls = "MultiExceptionFailHandler" ->
            MultiExceptionFailHandler_handle(self, response, body, environ)

-----------------------------------------------------------------------------
(* The inputs: what the client hands to a fail handler.                    *)

StatusCodes == {200, 201, 204, 304, 400, 401, 404, 500, 503}

\* the status codes the pair specification draws from
FewStatusCodes == {200, 404}

HandlerClasses ==
    {"ExceptionFailHandler", "NoneFailHandler", "DictFailHandler",
     "MultiExceptionFailHandler"}

Headers == <<Item(PyStr("content-type"), PyStr("text/plain"))>>

\* a response with the status as httplib2 gives it, a string
StrResponse(c) == PyDict(<<Item(STATUS, PyStr(IntToStr(c)))>> \o Headers)

\* a response whose status is an integer
IntResponse(c) == PyDict(<<Item(STATUS, PyInt(c))>> \o Headers)

\* a response without a status
NoStatusResponse == PyDict(Headers)

Responses ==
    {StrResponse(c) : c \in StatusCodes} \cup {IntResponse(c) : c \in StatusCodes}
        \cup {NoStatusResponse}

FewResponses ==
    {StrResponse(c) : c \in FewStatusCodes} \cup {IntResponse(404), NoStatusResponse}

Bodies == {PyStr(""), PyStr("oops")}

Unset == PyDict(<<>>)

\* os.environ: the debug variable unset, set to the empty string, set to "1"
Environs ==
    {Unset, PyDict(<<Item(DEBUG_VAR, PyStr(""))>>),
     PyDict(<<Item(DEBUG_VAR, PyStr("1"))>>)}

FewEnvirons == {Unset, PyDict(<<Item(DEBUG_VAR, PyStr("1"))>>)}

\* the (url, method, body, headers) a handler is constructed with
Requests ==
    {<<"http://localhost/api", "GET", None, PyDict(<<>>)>>,
     <<"http://localhost/api", "POST", PyStr("{}"), PyDict(Headers)>>}

NoHandler == [cls |-> "none"]

NoCall == [op |-> "none"]

NoStr == [op |-> "none"]

-----------------------------------------------------------------------------
(* The state machine: the client constructs a fail handler for a request,  *)
(* hands it the response and the body, and may print the error it raised.  *)

Init ==
    /\ os_environ \in Environs
    /\ handler = NoHandler
    /\ last = NoCall
    /\ first = NoCall
    /\ rendered = NoStr

\* handler = cls(url, method, body, headers); args remembers the arguments
Construct(cls, url, method, body, headers) ==
    /\ handler' = [cls |-> cls,
                   self |-> BaseFailHandler_init(cls, url, method, body, headers),
                   args |-> <<url, method, body, headers>>]
    /\ handler' # handler
    /\ UNCHANGED <<os_environ, last, first, rendered>>

\* handler.was_error(response)
WasError(response) ==
    /\ handler # NoHandler
    /\ last' = [op |-> "was_error", cls |-> handler.cls, response |-> response,
                outcome |-> Return(PyBool(was_error(handler.self, response)))]
    /\ rendered' = NoStr
    /\ UNCHANGED <<os_environ, handler, first>>

\* handler.handle(response, body); environ remembers os.environ at the call
Handle(response, body) ==
    /\ handler # NoHandler
    /\ last' = [op |-> "handle", cls |-> handler.cls, response |-> response,
                body |-> body, environ |-> os_environ,
                outcome |-> handle(handler.self, response, body, os_environ)]
    /\ rendered' = NoStr
    /\ UNCHANGED <<os_environ, handler, first>>

\* str(e) of the APIError the last call raised; environ is os.environ now
Str ==
    /\ last.op = "handle"
    /\ last.outcome.tag = "raise"
    /\ rendered' = [op |-> "str", text |-> APIError_str(last.outcome.exc),
                    environ |-> os_environ]
    /\ rendered' # rendered
    /\ UNCHANGED <<os_environ, handler, last, first>>

\* the process environment changes
SetEnviron(env) ==
    /\ env # os_environ
    /\ os_environ' = env
    /\ UNCHANGED <<handler, last, first, rendered>>

Next ==
    \/ \E cls \in HandlerClasses, r \in Requests : Construct(cls, r[1], r[2], r[3], r[4])
    \/ \E response \in Responses : WasError(response)
    \/ \E response \in Responses, body \in Bodies : Handle(response, body)
    \/ Str
    \/ \E env \in Environs : SetEnviron(env)

Spec == Init /\ [][Next]_vars

-----------------------------------------------------------------------------
(* Two calls side by side: the first call of the run and the last one.     *)

\* the record of handler.handle(response, body)
PairCall(response, body) ==
    [op |-> "handle", cls |-> handler.cls, args |-> handler.args,
     response |-> response, body |-> body,
     outcome |-> handle(handler.self, response, body, os_environ)]

InitPair ==
    /\ os_environ \in FewEnvirons
    /\ handler = NoHandler
    /\ last = NoCall
    /\ first = NoCall
    /\ rendered = NoStr

\* the first handle call of the run, which is kept
HandleFirst(response, body) ==
    /\ handler # NoHandler
    /\ first = NoCall
    /\ first' = PairCall(response, body)
    /\ last' = PairCall(response, body)
    /\ UNCHANGED <<os_environ, handler, rendered>>

\* a later handle call
HandleAgain(response, body) ==
    /\ handler # NoHandler
    /\ first # NoCall
    /\ last' = PairCall(response, body)
    /\ UNCHANGED <<os_environ, handler, first, rendered>>

NextPair ==
    \/ \E cls \in HandlerClasses, r \in Requests : Construct(cls, r[1], r[2], r[3], r[4])
    \/ \E response \in FewResponses, body \in Bodies : HandleFirst(response, body)
    \/ \E response \in FewResponses, body \in Bodies : HandleAgain(response, body)
    \/ \E env \in FewEnvirons : SetEnviron(env)

SpecPair == InitPair /\ [][NextPair]_vars

-----------------------------------------------------------------------------
(* What the properties speak of.                                           *)

\* the codes the specification counts as success
SuccessStatusSet == {200, 201, 204, 304}

HasStatus(response) == dict_contains(response, STATUS)

StatusOf(response) == dict_get(response, STATUS, None)

\* the status is the string form of one of the success codes
IsSuccessString(status) == \E c \in SuccessStatusSet : status = PyStr(IntToStr(c))

\* the status is one of the success codes, as a string or as an integer
IsSuccessCode(status) ==
    \E c \in SuccessStatusSet : status = PyStr(IntToStr(c)) \/ status = PyInt(c)

\* the error kind the Status-Dispatch mapping gives code c
KindOf(c) ==
    CASE c = 400 -> "BadRequestError"
      [] c = 401 -> "UnauthorizedError"
      [] c = 404 -> "NotFoundError"
      [] c = 500 -> "InternalServerErrorError"
      [] OTHER -> "APIError"

SpecificKinds ==
    {"BadRequestError", "UnauthorizedError", "NotFoundError", "InternalServerErrorError"}

\* the last call was handle on a handler of class cls
Handled(cls) == last.op = "handle" /\ last.cls = cls

\* the last call raised an error of exactly class kind with this message and body
Raised(kind, msg, body) ==
    /\ last.outcome.tag = "raise"
    /\ last.outcome.exc.cls = kind
    /\ last.outcome.exc.msg = msg
    /\ last.outcome.exc.body = body

\* the {response: D, body: B} of the Diagnostic-Wrap variant
Wrap(response, body) ==
    PyDict(<<Item(PyStr("response"), response), Item(PyStr("body"), body)>>)

DebugOn == PyDict(<<Item(DEBUG_VAR, PyStr("1"))>>)

DebugEmpty == PyDict(<<Item(DEBUG_VAR, PyStr(""))>>)

Text404 == "404: {'status': '404', 'content-type': 'text/plain'}"

\* the status of the last call's response is an integer
IntStatus == last # NoCall /\ StatusOf(last.response).t = "int"

\* what "%s" shows of a body
BodyText(body) == IF body = None THEN "None" ELSE body.s

\* the two calls were given the same handler class, response and body
SameCall(a, b) == a.cls = b.cls /\ a.response = b.response /\ a.body = b.body

\* the same returned value, or the same error class, message and body
SameOutcome(a, b) ==
    /\ a.tag = b.tag
    /\ a.tag = "return" => a.value = b.value
    /\ a.tag = "raise" =>
          /\ a.exc.cls = b.exc.cls
          /\ a.exc.msg = b.exc.msg
          /\ a.exc.body = b.exc.body

-----------------------------------------------------------------------------
\* C1 (as claimed): was_error is true iff the status is present and is not
\* one of the codes 200, 201, 204, 304; for a response without a status it
\* is false.
C1_FailureIffPresentAndNotSuccess ==
    last.op = "was_error" =>
        (last.outcome.value.b <=>
            (HasStatus(last.response) /\ ~IsSuccessCode(StatusOf(last.response))))

\* C1 (amended): was_error is true iff the status is not one of the strings
\* '200', '201', '204', '304'; so it is true for a response without a status,
\* true for every present status outside the set, and false for the four
\* success strings.
C1_FailureIffNotSuccessString ==
    last.op = "was_error" =>
        /\ ~HasStatus(last.response) => last.outcome = Return(PyBool(TRUE))
        /\ HasStatus(last.response) =>
              (last.outcome.value.b <=> ~IsSuccessString(StatusOf(last.response)))

C1_Witness ==
    /\ last.op = "was_error"
    /\ last.response = NoStatusResponse
    /\ last.outcome = Return(PyBool(TRUE))

\* C2: for the statuses '200', '201', '204', '304' and every body, was_error
\* is false and handle of each of the four handlers returns the body it was
\* given, without raising.
C2_SuccessReturnsBody ==
    (last # NoCall /\ IsSuccessString(StatusOf(last.response))) =>
        /\ last.op = "was_error" => last.outcome = Return(PyBool(FALSE))
        /\ last.op = "handle" => last.outcome = Return(last.body)

C2_Witness ==
    /\ Handled("MultiExceptionFailHandler")
    /\ last.response = StrResponse(304)
    /\ last.body = PyStr("oops")
    /\ last.outcome = Return(PyStr("oops"))

\* C3: ExceptionFailHandler.handle has three outcomes, decided in this order:
\* without a status it raises APIError("No status code in response") with no
\* body, even if a body was given; else for a failing status it raises
\* APIError("<status>: <response>") with the body; else it returns the body.
C3_StrictThreeOutcomes ==
    Handled("ExceptionFailHandler") =>
        IF ~HasStatus(last.response)
        THEN Raised("APIError", "No status code in response", None)
        ELSE IF ~IsSuccessString(StatusOf(last.response))
        THEN Raised("APIError",
                    str(StatusOf(last.response)) \o ": " \o repr(last.response),
                    last.body)
        ELSE last.outcome = Return(last.body)

C3_Witness ==
    /\ Handled("ExceptionFailHandler")
    /\ last.response = NoStatusResponse
    /\ last.body = PyStr("oops")
    /\ Raised("APIError", "No status code in response", None)

\* C4: MultiExceptionFailHandler.handle raises, for a failing status, the
\* class the mapping gives it: '400' BadRequestError, '401' UnauthorizedError,
\* '404' NotFoundError, '500' InternalServerErrorError, and for any other
\* failing status APIError itself and none of the four; the error carries the
\* body and the message "<status>: <response>", and is an APIError.
C4_DispatchByStatus ==
    (Handled("MultiExceptionFailHandler")
        /\ ~IsSuccessString(StatusOf(last.response))) =>
        /\ last.outcome.tag = "raise"
        /\ isinstance(last.outcome.exc, "APIError")
        /\ last.outcome.exc.body = last.body
        /\ last.outcome.exc.msg =
              str(StatusOf(last.response)) \o ": " \o repr(last.response)
        /\ \A c \in StatusCodes :
              last.response = StrResponse(c) => last.outcome.exc.cls = KindOf(c)
        /\ (\A c \in {400, 401, 404, 500} : last.response # StrResponse(c)) =>
              last.outcome.exc.cls \notin SpecificKinds

C4_Witness ==
    /\ Handled("MultiExceptionFailHandler")
    /\ last.response = StrResponse(401)
    /\ Raised("UnauthorizedError",
              "401: {'status': '401', 'content-type': 'text/plain'}", PyStr("oops"))

\* C5 (as claimed): for a response without a status, NoneFailHandler,
\* DictFailHandler and MultiExceptionFailHandler return the body unchanged
\* and raise nothing; only ExceptionFailHandler fails.
C5_NoStatusIsNoFailure ==
    (last.op = "handle" /\ ~HasStatus(last.response)) =>
        IF last.cls = "ExceptionFailHandler"
        THEN last.outcome.tag = "raise"
        ELSE last.outcome = Return(last.body)

\* C5 (amended): for a response without a status every handler reports a
\* failure: NoneFailHandler returns None, DictFailHandler returns the dict of
\* response and body, MultiExceptionFailHandler raises APIError with the
\* message "None: <response>" and the body, and ExceptionFailHandler raises
\* APIError("No status code in response") without the body.
C5_NoStatusIsFailure ==
    (last.op = "handle" /\ ~HasStatus(last.response)) =>
        CASE last.cls = "NoneFailHandler" -> last.outcome = Return(None)
          [] last.cls = "DictFailHandler" ->
                last.outcome = Return(Wrap(last.response, last.body))
          [] last.cls = "MultiExceptionFailHandler" ->
                Raised("APIError", "None: " \o repr(last.response), last.body)
          [] last.cls = "ExceptionFailHandler" ->
                Raised("APIError", "No status code in response", None)

C5_Witness ==
    /\ Handled("DictFailHandler")
    /\ last.response = NoStatusResponse
    /\ last.body = PyStr("oops")
    /\ last.outcome = Return(Wrap(NoStatusResponse, PyStr("oops")))

\* C6: NoneFailHandler.handle never raises; it returns None exactly when the
\* response is a failure and the body it was given exactly when it is not.
C6_SilentNoneOrBody ==
    Handled("NoneFailHandler") =>
        /\ last.outcome.tag = "return"
        /\ (last.outcome.value = None) <=> ~IsSuccessString(StatusOf(last.response))
        /\ (last.outcome.value = last.body) <=> IsSuccessString(StatusOf(last.response))

C6_Witness ==
    /\ Handled("NoneFailHandler")
    /\ last.response = StrResponse(200)
    /\ last.body = PyStr("")
    /\ last.outcome = Return(PyStr(""))

\* C7: DictFailHandler.handle never raises; for a failing response D and body
\* B it returns the dict with exactly the fields response = D and body = B,
\* and otherwise B itself, so that the result is a dict exactly for a failure.
C7_WrapKeepsContext ==
    Handled("DictFailHandler") =>
        /\ last.outcome.tag = "return"
        /\ IF ~IsSuccessString(StatusOf(last.response))
           THEN /\ last.outcome.value.t = "dict"
                /\ Len(last.outcome.value.items) = 2
                /\ dict_get(last.outcome.value, PyStr("response"), None) = last.response
                /\ dict_get(last.outcome.value, PyStr("body"), None) = last.body
           ELSE /\ last.outcome.value = last.body
                /\ last.outcome.value.t # "dict"

C7_Witness ==
    /\ Handled("DictFailHandler")
    /\ last.response = StrResponse(400)
    /\ last.body = PyStr("oops")
    /\ last.outcome = Return(Wrap(StrResponse(400), PyStr("oops")))

\* C8 (as claimed): an integer status is classified as its string form is:
\* integer 200, 201, 204, 304 are not failures and every handler returns the
\* body for them, every other integer is a failure, and
\* MultiExceptionFailHandler raises for integer 400, 401, 404, 500 the class
\* the mapping gives the string form.
C8_IntegerAsString ==
    IntStatus =>
        LET c == StatusOf(last.response).n
        IN /\ last.op = "was_error" =>
                 (last.outcome.value.b <=> c \notin SuccessStatusSet)
           /\ (last.op = "handle" /\ c \in SuccessStatusSet) =>
                 last.outcome = Return(last.body)
           /\ (Handled("MultiExceptionFailHandler") /\ c \notin SuccessStatusSet) =>
                 (last.outcome.tag = "raise" /\ last.outcome.exc.cls = KindOf(c))

\* C8 (amended): only the string form of a status is recognised.  A response
\* whose status is an integer c is a failure for every c, 200, 201, 204 and
\* 304 included: was_error is true, NoneFailHandler returns None,
\* DictFailHandler returns the dict, and ExceptionFailHandler and
\* MultiExceptionFailHandler raise APIError itself with "<c>: <response>" and
\* the body, for 400, 401, 404 and 500 too.
C8_IntegerAlwaysFails ==
    IntStatus =>
        LET msg == IntToStr(StatusOf(last.response).n) \o ": " \o repr(last.response)
        IN /\ last.op = "was_error" => last.outcome = Return(PyBool(TRUE))
           /\ Handled("NoneFailHandler") => last.outcome = Return(None)
           /\ Handled("DictFailHandler") =>
                 last.outcome = Return(Wrap(last.response, last.body))
           /\ Handled("ExceptionFailHandler") => Raised("APIError", msg, last.body)
           /\ Handled("MultiExceptionFailHandler") => Raised("APIError", msg, last.body)

C8_Witness ==
    /\ Handled("MultiExceptionFailHandler")
    /\ last.response = IntResponse(404)
    /\ Raised("APIError", "404: {'status': 404, 'content-type': 'text/plain'}",
              PyStr("oops"))

\* C9: the string form of an APIError is fixed by the value the debug
\* variable had when the error was constructed: set to a non-empty value, the
\* string holds the message and the text of the body; unset (or empty), the
\* string is the message and nothing else; what os.environ holds when the
\* string is taken makes no difference.
C9_StrFixedAtConstruction ==
    rendered # NoStr =>
        LET e == last.outcome.exc
        IN /\ last.environ = DebugOn =>
                 /\ Contains(rendered.text, e.msg)
                 /\ Contains(rendered.text, "Received body:\n" \o BodyText(e.body))
                 /\ rendered.text # e.msg
           /\ last.environ \in {Unset, DebugEmpty} => rendered.text = e.msg

C9_Witness ==
    /\ rendered # NoStr
    /\ last.environ = Unset
    /\ rendered.environ = DebugOn
    /\ last.response = StrResponse(404)
    /\ last.body = PyStr("oops")
    /\ rendered.text = Text404

====
